---- MODULE Spec2Model ----
(***************************************************************************)
(* Model of the secured data API: the middleware stack built in main.py,   *)
(* the sliding-window rate limiter of middleware.py, the JWT primitives    *)
(* and dependencies of auth.py and the /data, /users, /login routes of     *)
(* main.py with the crud.py functions they call.                           *)
(*                                                                         *)
(* Time is in whole seconds (time.time() and the integer exp claim).       *)
(* The event loop runs a coroutine without interruption between awaits:    *)
(* RateLimitMiddleware.dispatch lines 20-37 contain no await, and the      *)
(* route functions contain none either, so each is one atomic step. The    *)
(* awaits inside call_next separate the two steps of a request: Receive    *)
(* (the inbound pass through the middleware stack) and Handle (the         *)
(* dependencies, the route function and the outbound pass).                *)
(***************************************************************************)
EXTENDS Integers, Sequences, FiniteSets, TLC

VARIABLES
    now,        \* the clock read by time.time() / datetime.utcnow()
    requests,   \* RateLimitMiddleware.requests: client host -> list of instants
    accepted,   \* history: client host -> instants at which dispatch called call_next
    users,      \* rows of the users table
    items,      \* rows of the data_items table
    issued,     \* the token of the latest successful /login, which the client holds
    inflight,   \* slot -> a request between Receive and Handle, or None
    last,       \* the response completed by the latest step, with its request
    block,      \* history: client host -> "none", "rejected" (a 429 since its last
                \* accepted request) or "readmitted" (accepted after a 429)
    tcase       \* the token call under test: arguments and results

vars == <<now, requests, accepted, users, items, issued, inflight, last, block, tcase>>

\* Python's None.
None == [none |-> TRUE]

-----------------------------------------------------------------------------
(* Bounds of the model *)

MaxTime == 90
MaxUserId == 4
TickSteps == {30}
ClientIps == {"10.0.0.1", "10.0.0.2"}
ItemIds == {1, 2}
Passwords == {"Admin123", "User1234"}

(* Configuration and program constants *)

RequestsPerMinute == 2
Window == 60
DefaultExpiresDelta == 900
FallbackExpiresDelta == 900
ACCESS_TOKEN_EXPIRE_MINUTES == 30
SECRET_KEY == "sua-chave-secreta-aqui-mude-em-producao"
ALGORITHM == "HS256"

-----------------------------------------------------------------------------
(* auth.py: passwords and tokens *)

get_password_hash(password) == <<"bcrypt", password>>

verify_password(plain_password, hashed_password) ==
    hashed_password = <<"bcrypt", plain_password>>

\* timedelta(seconds=n)
timedelta(n) == [seconds |-> n]

\* Python truthiness of a timedelta argument: None and timedelta(0) are falsy.
Truthy(expires_delta) == expires_delta # None /\ expires_delta.seconds # 0

\* jwt.encode: the payload with the key and algorithm it was signed under.
jwt_encode(payload, key, algorithm) ==
    [payload |-> payload, key |-> key, alg |-> algorithm]

\* dict.update({"exp": expire}) on a copy of data
WithExp(data, expire) ==
    [k \in DOMAIN data \cup {"exp"} |-> IF k = "exp" THEN expire ELSE data[k]]

create_access_token(data, expires_delta, t) ==
    LET expire == IF Truthy(expires_delta) THEN t + expires_delta.seconds
                  ELSE t + FallbackExpiresDelta
    IN jwt_encode(WithExp(data, expire), SECRET_KEY, ALGORITHM)

\* jwt.decode raises JWTError on a string that is not a JWS of three segments,
\* on a signature or algorithm mismatch and when exp < now (python-jose compares
\* whole seconds); otherwise it returns the payload.
jwt_decodes(token, key, algorithm, t) ==
    /\ "payload" \in DOMAIN token
    /\ token.key = key
    /\ token.alg = algorithm
    /\ ("exp" \in DOMAIN token.payload => ~(token.payload["exp"] < t))

\* dict.get
Get(payload, k) == IF k \in DOMAIN payload THEN payload[k] ELSE None

\* The Python type of a claim value, read off its printed form: None, or an
\* integer (the integers of the model are the user ids).
IsNone(v) == ToString(v) = ToString(None)

IsInt(v) == ToString(v) \in {ToString(i) : i \in 0 .. MaxUserId + 1}

\* pydantic's ValidationError, which is not a JWTError: verify_token does not
\* catch it.
ValidationError == [raised |-> "ValidationError"]

\* The TokenData constructor: user_id is Optional[int], and a value that is
\* neither None nor an integer fails validation.
TokenData(username, user_id, user_type) ==
    IF IsNone(user_id) \/ IsInt(user_id)
    THEN [username |-> username, user_id |-> user_id, user_type |-> user_type]
    ELSE ValidationError

verify_token_SwapClaims(token, t) ==
    IF ~jwt_decodes(token, SECRET_KEY, ALGORITHM, t) THEN None
    ELSE IF "sub" \notin DOMAIN token.payload THEN None
    ELSE TokenData(Get(token.payload, "sub"), Get(token.payload, "user_id"),
                   Get(token.payload, "sub"))

\* verify_token: the TokenData, None (the rejection), or ValidationError when
\* the constructor raises.
verify_token(token, t) ==
    IF ~jwt_decodes(token, SECRET_KEY, ALGORITHM, t) THEN None
    ELSE IF "sub" \notin DOMAIN token.payload THEN None
    ELSE TokenData(Get(token.payload, "sub"), Get(token.payload, "user_id"),
                   Get(token.payload, "user_type"))

-----------------------------------------------------------------------------
(* The database. users: rows of models.User; items: rows of models.DataItem. *)

InitialUsers ==
    { [id |-> 1, username |-> "admin", email |-> "admin@example.com",
       hashed_password |-> get_password_hash("Admin123"),
       user_type |-> "admin", is_active |-> TRUE],
      [id |-> 2, username |-> "user1", email |-> "user1@example.com",
       hashed_password |-> get_password_hash("User1234"),
       user_type |-> "user", is_active |-> TRUE],
      [id |-> 3, username |-> "user2", email |-> "user2@example.com",
       hashed_password |-> get_password_hash("User1234"),
       user_type |-> "user", is_active |-> TRUE] }

InitialItems == { [id |-> 1, user_id |-> 2], [id |-> 2, user_id |-> 3] }

\* The values of user_type (models.py, validate_user_type).
UserTypes == {"user", "admin", "moderator"}

\* The usernames of the model that match ^[a-zA-Z0-9_]+$ and have 3 to 50
\* characters; "bad name" does not match.
UsernamePattern ==
    {"admin", "user1", "user2", "mod1", "Mod1", "renamed1", "nobody"}

\* str.lower on the usernames of the model.
lower(v) ==
    CASE v = "Mod1" -> "mod1"
      [] OTHER -> v

\* UserBase.validate_username and validate_user_type: does the body validate
\* (otherwise FastAPI answers 422 before the route function runs).
UserCreateValid(body) ==
    /\ body.username \in UsernamePattern
    /\ body.user_type \in UserTypes

\* The UserCreate the route function receives: validate_username returns
\* v.lower().
UserCreate(body) == [body EXCEPT !.username = lower(@)]

\* Query.first(): the matching row with the lowest primary key, or None.
First(rows) ==
    IF rows = {} THEN None
    ELSE CHOOSE r \in rows : \A q \in rows : r.id <= q.id

get_user_by_username(us, username) == First({u \in us : u.username = username})

get_user_by_id(us, user_id) == First({u \in us : u.id = user_id})

IntegrityError_EmailOnly(us) ==
    \E u, v \in us : u # v /\ u.email = v.email

\* The unique indexes of the users table: the IntegrityError of a commit.
IntegrityError(us) ==
    \E u, v \in us : u # v /\ (u.username = v.username \/ u.email = v.email)

\* The primary key the database gives a new row (SQLite, the configured
\* default: one more than the largest key in the table).
NextId(rows) ==
    IF rows = {} THEN 1
    ELSE 1 + (CHOOSE m \in {r.id : r \in rows} : \A r \in rows : r.id <= m)

\* create_user: the new row and table, or raised (HTTPException 400) on
\* IntegrityError, the table rolled back.
create_user(us, user) ==
    LET db_user == [id |-> NextId(us), username |-> user.username, email |-> user.email,
                    hashed_password |-> get_password_hash(user.password),
                    user_type |-> user.user_type, is_active |-> TRUE]
    IN IF IntegrityError(us \cup {db_user})
       THEN [user |-> None, users |-> us, raised |-> TRUE]
       ELSE [user |-> db_user, users |-> us \cup {db_user}, raised |-> FALSE]

\* setattr for every key of user_update.dict(exclude_unset=True)
SetAttrs(row, update_data) ==
    [k \in DOMAIN row |-> IF k \in DOMAIN update_data THEN update_data[k] ELSE row[k]]

update_user(us, user_id, user_update) ==
    LET db_user == get_user_by_id(us, user_id)
    IN IF db_user = None THEN [user |-> None, users |-> us, raised |-> FALSE]
       ELSE LET updated == SetAttrs(db_user, user_update)
                table == (us \ {db_user}) \cup {updated}
            IN IF IntegrityError(table)
               THEN [user |-> None, users |-> us, raised |-> TRUE]
               ELSE [user |-> updated, users |-> table, raised |-> FALSE]

\* delete_user: the row goes and, by the cascade of User.data_items, the
\* user's data items with it.
delete_user(us, its, user_id) ==
    LET db_user == get_user_by_id(us, user_id)
    IN IF db_user = None THEN [success |-> FALSE, users |-> us, items |-> its]
       ELSE [success |-> TRUE, users |-> us \ {db_user},
             items |-> {d \in its : d.user_id # user_id}]

get_data_item(its, item_id) == First({d \in its : d.id = item_id})

get_data_items_by_user(its, user_id) == {d \in its : d.user_id = user_id}

get_all_data_items(its) == its

delete_data_item(its, item_id) ==
    LET db_data_item == get_data_item(its, item_id)
    IN IF db_data_item = None THEN [success |-> FALSE, items |-> its]
       ELSE [success |-> TRUE, items |-> its \ {db_data_item}]

can_access_data_item_ModeratorBypass(its, item_id, user_id, user_type) ==
    IF user_type \in {"admin", "moderator"} THEN TRUE
    ELSE LET db_data_item == get_data_item(its, item_id)
         IN IF db_data_item = None THEN FALSE
            ELSE db_data_item.user_id = user_id

can_access_data_item_MissingAllowed(its, item_id, user_id, user_type) ==
    IF user_type = "admin" THEN TRUE
    ELSE LET db_data_item == get_data_item(its, item_id)
         IN IF db_data_item = None THEN TRUE
            ELSE db_data_item.user_id = user_id

can_access_data_item(its, item_id, user_id, user_type) ==
    IF user_type = "admin" THEN TRUE
    ELSE LET db_data_item == get_data_item(its, item_id)
         IN IF db_data_item = None THEN FALSE
            ELSE db_data_item.user_id = user_id

authenticate_user_AnyPassword(us, username, password) ==
    get_user_by_username(us, username)

authenticate_user(us, username, password) ==
    LET user == get_user_by_username(us, username)
    IN IF user = None THEN None
       ELSE IF ~verify_password(password, user.hashed_password) THEN None
       ELSE user

-----------------------------------------------------------------------------
(* middleware.py: the rate limiter *)

Prune_WrongWindow(list, current_time) ==
    SelectSeq(list, LAMBDA req_time : current_time - req_time < Window + Window)

Prune_Inclusive(list, current_time) ==
    SelectSeq(list, LAMBDA req_time : current_time - req_time <= Window)

Prune(list, current_time) ==
    SelectSeq(list, LAMBDA req_time : current_time - req_time < Window)

OverLimit_OffByOne(list) == Len(list) > RequestsPerMinute

OverLimit(list) == Len(list) >= RequestsPerMinute

Record_Overwrite(list, current_time) == <<current_time>>

Record(list, current_time) == Append(list, current_time)

RateLimitDispatch_RecordsRejected(reqs, client_ip, current_time) ==
    LET pruned == Prune(reqs[client_ip], current_time)
    IN [requests |-> [reqs EXCEPT ![client_ip] = Record(pruned, current_time)],
        passed |-> ~OverLimit(pruned)]

RateLimitDispatch_SweepsAll(reqs, client_ip, current_time) ==
    LET swept == [c \in DOMAIN reqs |-> Prune(reqs[c], current_time)]
    IN IF OverLimit(swept[client_ip])
       THEN [requests |-> swept, passed |-> FALSE]
       ELSE [requests |-> [swept EXCEPT ![client_ip] = Record(@, current_time)],
             passed |-> TRUE]

\* RateLimitMiddleware.dispatch up to its call_next: the new map and whether
\* the request is passed on (FALSE: the 429 response is returned).
RateLimitDispatch(reqs, client_ip, current_time) ==
    LET pruned == Prune(reqs[client_ip], current_time)
    IN IF OverLimit(pruned)
       THEN [requests |-> [reqs EXCEPT ![client_ip] = pruned], passed |-> FALSE]
       ELSE [requests |-> [reqs EXCEPT ![client_ip] = Record(pruned, current_time)],
             passed |-> TRUE]

-----------------------------------------------------------------------------
(* main.py: the middleware stack *)

\* The add_middleware calls of main.py, in program order.
AddedMiddleware ==
    <<"SecurityMiddleware", "LoggingMiddleware", "RateLimitMiddleware", "CORSMiddleware">>

\* Starlette's add_middleware inserts at the front of user_middleware, and the
\* stack is built with the front entry outermost.
add_middleware_Append(user_middleware, cls) == user_middleware \o <<cls>>

add_middleware(user_middleware, cls) == <<cls>> \o user_middleware

RECURSIVE BuildStack(_, _)
BuildStack(calls, user_middleware) ==
    IF calls = <<>> THEN user_middleware
    ELSE BuildStack(Tail(calls), add_middleware(user_middleware, Head(calls)))

\* MiddlewareStack[1] is the outermost middleware.
MiddlewareStack == BuildStack(AddedMiddleware, <<>>)

SecurityHeaders ==
    {"X-Content-Type-Options", "X-Frame-Options", "X-XSS-Protection",
     "Strict-Transport-Security"}

PostProcess_NoHsts(cls, response) ==
    CASE cls = "LoggingMiddleware" ->
            [response EXCEPT !.headers = @ \cup {"X-Process-Time"}]
      [] cls = "SecurityMiddleware" ->
            [response EXCEPT !.headers =
                @ \cup {"X-Content-Type-Options", "X-Frame-Options", "X-XSS-Protection"}]
      [] OTHER -> response

\* What a middleware does to the response that call_next returned to it.
PostProcess(cls, response) ==
    CASE cls = "LoggingMiddleware" ->
            [response EXCEPT !.headers = @ \cup {"X-Process-Time"}]
      [] cls = "SecurityMiddleware" ->
            [response EXCEPT !.headers = @ \cup SecurityHeaders]
      [] OTHER -> response

\* The response travels outwards through the layers depth, depth-1, .., 1.
RECURSIVE Outbound(_, _)
Outbound(response, depth) ==
    IF depth = 0 THEN response
    ELSE Outbound(PostProcess(MiddlewareStack[depth], response), depth - 1)

\* The inbound pass from layer i on. trace: the units that processed the
\* request so far; passed: the rate limiter called call_next; short: the
\* response of a layer that did not call call_next (already passed outwards
\* through the layers above it), or None.
RECURSIVE Inbound(_, _, _, _, _)
Inbound(i, req, reqs, current_time, trace) ==
    IF i > Len(MiddlewareStack)
    THEN [requests |-> reqs, trace |-> trace, passed |-> FALSE, short |-> None]
    ELSE
      LET cls == MiddlewareStack[i]
          tr == Append(trace, cls)
      IN CASE cls = "CORSMiddleware" /\ req.route = "preflight" ->
                [requests |-> reqs, trace |-> tr, passed |-> FALSE,
                 short |-> Outbound([status |-> 200,
                                     headers |-> {"Access-Control-Allow-Origin"}], i - 1)]
           [] cls = "RateLimitMiddleware" ->
                LET d == RateLimitDispatch(reqs, req.ip, current_time)
                IN IF d.passed
                   THEN [Inbound(i + 1, req, d.requests, current_time, tr)
                           EXCEPT !.passed = TRUE]
                   ELSE [requests |-> d.requests, trace |-> tr, passed |-> FALSE,
                         short |-> Outbound([status |-> 429, headers |-> {}], i - 1)]
           [] OTHER -> Inbound(i + 1, req, reqs, current_time, tr)

-----------------------------------------------------------------------------
(* auth.py dependencies and main.py routes. Each returns the response with  *)
(* the units it ran (trace), the items table it leaves, the body fields of  *)
(* the response (token, token_type, expires_in, shown: the items returned), *)
(* the user row it created, the id of the user handed to the route function *)
(* (principal, 0 when it did not run) and whether it ended in an unhandled  *)
(* exception.                                                               *)

Reply(status, headers, trace, its) ==
    [status |-> status, headers |-> headers, trace |-> trace, items |-> its,
     token |-> None, token_type |-> "", expires_in |-> 0, shown |-> {},
     created |-> None, principal |-> 0, raised |-> FALSE]

\* An exception no handler catches: ServerErrorMiddleware answers 500.
Raised(trace, its) ==
    [Reply(500, {}, trace, its) EXCEPT !.raised = TRUE]

\* The route function ran with current_user = user.
WithPrincipal(reply, user) == [reply EXCEPT !.principal = user.id]

\* get_current_user: the user, or None for the 401 credentials_exception;
\* raised when verify_token raises.
get_current_user(token, us, t) ==
    LET token_data == verify_token(token, t)
    IN IF token_data = ValidationError
       THEN [user |-> None, trace |-> <<"verify_token">>, raised |-> TRUE]
       ELSE IF token_data = None
       THEN [user |-> None, trace |-> <<"verify_token">>, raised |-> FALSE]
       ELSE [user |-> get_user_by_username(us, token_data.username),
             trace |-> <<"verify_token", "get_user">>, raised |-> FALSE]

\* get_current_active_user: the user, or the error response in error.
get_current_active_user(token, us, its, t) ==
    LET cu == get_current_user(token, us, t)
    IN IF cu.raised
       THEN [user |-> None, error |-> Raised(cu.trace, its)]
       ELSE IF cu.user = None
       THEN [user |-> None,
             error |-> Reply(401, {"WWW-Authenticate"}, cu.trace, its)]
       ELSE IF ~cu.user.is_active
       THEN [user |-> None,
             error |-> Reply(400, {}, Append(cu.trace, "get_current_active_user"), its)]
       ELSE [user |-> cu.user, error |-> None,
             trace |-> Append(cu.trace, "get_current_active_user")]

require_admin_TokenRole(token, us, its, t) ==
    LET au == get_current_active_user(token, us, its, t)
    IN IF au.user = None THEN au
       ELSE IF verify_token(token, t).user_type # "admin"
       THEN [user |-> None, error |-> Reply(403, {}, Append(au.trace, "require_admin"), its)]
       ELSE [au EXCEPT !.trace = Append(@, "require_admin")]

require_admin(token, us, its, t) ==
    LET au == get_current_active_user(token, us, its, t)
    IN IF au.user = None THEN au
       ELSE IF au.user.user_type # "admin"
       THEN [user |-> None, error |-> Reply(403, {}, Append(au.trace, "require_admin"), its)]
       ELSE [au EXCEPT !.trace = Append(@, "require_admin")]

health_check(its) == Reply(200, {}, <<"health_check">>, its)

login(req, us, its, t) ==
    LET user == authenticate_user(us, req.username, req.password)
    IN IF user = None
       THEN Reply(401, {"WWW-Authenticate"}, <<"authenticate_user">>, its)
       ELSE IF ~user.is_active
       THEN Reply(400, {}, <<"authenticate_user">>, its)
       ELSE [Reply(200, {}, <<"authenticate_user", "create_access_token">>, its)
               EXCEPT !.token =
                 create_access_token([sub |-> user.username, user_id |-> user.id,
                                      user_type |-> user.user_type],
                                     timedelta(DefaultExpiresDelta), t),
                      !.token_type = "bearer",
                      !.expires_in = ACCESS_TOKEN_EXPIRE_MINUTES * 60]

\* register: 422 when the body does not validate, 400 when the username is
\* taken or create_user raises.
register(req, us, its, t) ==
    IF ~UserCreateValid(req) THEN Reply(422, {}, <<"UserCreate">>, its)
    ELSE LET user == UserCreate(req)
         IN IF get_user_by_username(us, user.username) # None
            THEN Reply(400, {}, <<"register">>, its)
            ELSE LET c == create_user(us, user)
                 IN IF c.raised THEN Reply(400, {}, <<"register", "create_user">>, its)
                    ELSE [Reply(200, {}, <<"register", "create_user">>, its)
                            EXCEPT !.created = c.user]

\* create_data passes user_id= to crud.create_data_item, which has no such
\* parameter: the call raises TypeError.
create_data(req, us, its, t) ==
    LET au == get_current_active_user(req.token, us, its, t)
    IN IF au.user = None THEN au.error
       ELSE WithPrincipal(Raised(Append(au.trace, "create_data"), its), au.user)

get_data(req, us, its, t) ==
    LET au == get_current_active_user(req.token, us, its, t)
    IN IF au.user = None THEN au.error
       ELSE WithPrincipal(
              [Reply(200, {}, Append(au.trace, "get_data"), its)
                 EXCEPT !.shown = IF au.user.user_type = "admin"
                                  THEN get_all_data_items(its)
                                  ELSE get_data_items_by_user(its, au.user.id)],
              au.user)

get_data_item_by_id_LookupFirst(req, us, its, t) ==
    LET au == get_current_active_user(req.token, us, its, t)
    IN IF get_data_item(its, req.item) = None
       THEN Reply(404, {}, <<"get_data_item">>, its)
       ELSE IF au.user = None
       THEN [au.error EXCEPT !.trace = <<"get_data_item">> \o @]
       ELSE IF ~can_access_data_item(its, req.item, au.user.id, au.user.user_type)
       THEN Reply(403, {}, <<"get_data_item">> \o Append(au.trace, "can_access_data_item"), its)
       ELSE Reply(200, {}, <<"get_data_item">> \o Append(au.trace, "can_access_data_item"), its)

get_data_item_by_id(req, us, its, t) ==
    LET au == get_current_active_user(req.token, us, its, t)
    IN IF au.user = None THEN au.error
       ELSE WithPrincipal(
         IF ~can_access_data_item(its, req.item, au.user.id, au.user.user_type)
         THEN Reply(403, {}, Append(au.trace, "can_access_data_item"), its)
         ELSE IF get_data_item(its, req.item) = None
         THEN Reply(404, {}, au.trace \o <<"can_access_data_item", "get_data_item">>, its)
         ELSE [Reply(200, {}, au.trace \o <<"can_access_data_item", "get_data_item">>, its)
                 EXCEPT !.shown = {get_data_item(its, req.item)}],
         au.user)

\* update_data_item_by_id passes data_item_update= to crud.update_data_item,
\* whose parameter is data_item: the call raises TypeError.
update_data_item_by_id(req, us, its, t) ==
    LET au == get_current_active_user(req.token, us, its, t)
    IN IF au.user = None THEN au.error
       ELSE WithPrincipal(
         IF ~can_access_data_item(its, req.item, au.user.id, au.user.user_type)
         THEN Reply(403, {}, Append(au.trace, "can_access_data_item"), its)
         ELSE Raised(Append(au.trace, "can_access_data_item"), its),
         au.user)

delete_data_item_by_id_DeleteFirst(req, us, its, t) ==
    LET au == get_current_active_user(req.token, us, its, t)
    IN IF au.user = None THEN au.error
       ELSE LET d == delete_data_item(its, req.item)
                tr == au.trace \o <<"delete_data_item", "can_access_data_item">>
            IN IF ~can_access_data_item(its, req.item, au.user.id, au.user.user_type)
               THEN Reply(403, {}, tr, d.items)
               ELSE IF ~d.success THEN Reply(404, {}, tr, its)
               ELSE Reply(200, {}, tr, d.items)

delete_data_item_by_id(req, us, its, t) ==
    LET au == get_current_active_user(req.token, us, its, t)
    IN IF au.user = None THEN au.error
       ELSE WithPrincipal(
         IF ~can_access_data_item(its, req.item, au.user.id, au.user.user_type)
         THEN Reply(403, {}, Append(au.trace, "can_access_data_item"), its)
         ELSE LET d == delete_data_item(its, req.item)
                  tr == au.trace \o <<"can_access_data_item", "delete_data_item">>
              IN IF ~d.success THEN Reply(404, {}, tr, its)
                 ELSE Reply(200, {}, tr, d.items),
         au.user)

get_users(req, us, its, t) ==
    LET ad == require_admin(req.token, us, its, t)
    IN IF ad.user = None THEN ad.error
       ELSE WithPrincipal(Reply(200, {}, Append(ad.trace, "get_users"), its), ad.user)

\* The routes that depend on get_current_user, and through it on security.
ProtectedRoutes ==
    {"create_data", "get_data", "get_data_item_by_id", "update_data_item_by_id",
     "delete_data_item_by_id", "get_users"}

\* The router: the route function of the request with its dependencies.
App(req, us, its, t) ==
    CASE req.route = "health" -> health_check(its)
      [] req.route = "login" -> login(req, us, its, t)
      [] req.route = "register" -> register(req, us, its, t)
      [] req.route = "create_data" -> create_data(req, us, its, t)
      [] req.route = "get_data" -> get_data(req, us, its, t)
      [] req.route = "get_data_item_by_id" -> get_data_item_by_id(req, us, its, t)
      [] req.route = "update_data_item_by_id" -> update_data_item_by_id(req, us, its, t)
      [] req.route = "delete_data_item_by_id" -> delete_data_item_by_id(req, us, its, t)
      [] req.route = "get_users" -> get_users(req, us, its, t)

\* What HTTPBearer (auto_error) answers a request without an Authorization
\* header depends on the FastAPI release installed: 403 "Not authenticated",
\* or 401 with a WWW-Authenticate challenge in later releases.
NotAuthenticatedStatus == {403, 401}

HTTPBearer(not_authenticated, its) ==
    IF not_authenticated = 401
    THEN Reply(401, {"WWW-Authenticate"}, <<"HTTPBearer">>, its)
    ELSE Reply(403, {}, <<"HTTPBearer">>, its)

\* security is the first dependency of a protected route: without
\* credentials nothing else of the route runs.
Dispatch(req, us, its, t, not_authenticated) ==
    IF req.route \in ProtectedRoutes /\ req.token = None
    THEN HTTPBearer(not_authenticated, its)
    ELSE App(req, us, its, t)

\* The responses the application can give, over the releases of the framework.
Responses(req, us, its, t) ==
    { Dispatch(req, us, its, t, not_authenticated) :
        not_authenticated \in NotAuthenticatedStatus }

-----------------------------------------------------------------------------
(* Requests the clients send *)

\* The requests that can be in flight at once.
Slots == {1, 2}

\* item 0 and the empty string stand for a field the request does not carry.
Request(ip, route, item, token, username, password) ==
    [ip |-> ip, route |-> route, item |-> item, token |-> token,
     username |-> username, password |-> password, email |-> "", user_type |-> ""]

\* The body of POST /register (UserCreate).
RegisterRequest(ip, username, password, user_type) ==
    [Request(ip, "register", 0, None, username, password)
       EXCEPT !.email = IF username = "user1" THEN "user1@example.com"
                        ELSE "mod1@example.com",
              !.user_type = user_type]

\* A token signed with a key that is not the server's.
ForgedToken ==
    jwt_encode([sub |-> "admin", user_id |-> 1, user_type |-> "admin",
                exp |-> MaxTime + DefaultExpiresDelta], "attacker-key", ALGORITHM)

LoginAttempts ==
    { <<"admin", "Admin123">>, <<"user1", "User1234">>, <<"user1", "Admin123">>,
      <<"nobody", "User1234">> }

\* The requests of the application workload: the routes with the tokens the
\* clients hold and a forged one.
AppMenu(held) ==
    LET ip == "10.0.0.1"
        tokens == held \cup {ForgedToken}
    IN  { Request(ip, r, 0, None, "", "") : r \in {"health", "preflight"} }
        \cup { Request(ip, "login", 0, None, a[1], a[2]) : a \in LoginAttempts }
        \cup { Request(ip, r, 0, tok, "", "") :
                 r \in {"create_data", "get_users"}, tok \in tokens }
        \cup { Request(ip, r, i, tok, "", "") :
                 r \in {"get_data_item_by_id", "update_data_item_by_id",
                        "delete_data_item_by_id"},
                 i \in ItemIds, tok \in tokens }

\* The requests of the burst workload: unauthenticated requests of every client.
BurstMenu ==
    { Request(c, "health", 0, None, "", "") : c \in ClientIps }

-----------------------------------------------------------------------------
(* The state machine *)

EmptyCase == [data |-> None, expires_delta |-> None, issued_at |-> 0,
              token |-> None, verified |-> None]

Init ==
    /\ now = 0
    /\ requests = [c \in ClientIps |-> <<>>]
    /\ accepted = [c \in ClientIps |-> <<>>]
    /\ users = InitialUsers
    /\ items = InitialItems
    /\ issued = {}
    /\ inflight = [s \in Slots |-> None]
    /\ last = None
    /\ block = [c \in ClientIps |-> "none"]
    /\ tcase = EmptyCase

\* The monitor's view of the accept history: the instants still within reach
\* of the window at time t.
Recent(list, t) == SelectSeq(list, LAMBDA a : t - a <= Window)

\* A request arrives and runs the inbound pass: it is either answered by a
\* middleware or left in flight for the application.
Receive(slot, req) ==
    /\ LET r == Inbound(1, req, requests, now, <<>>)
       IN /\ r.short = None => inflight[slot] = None
          /\ requests' = r.requests
          /\ accepted' = IF r.passed THEN [accepted EXCEPT ![req.ip] = Append(@, now)]
                         ELSE accepted
          /\ block' = IF r.passed
                      THEN [block EXCEPT ![req.ip] =
                              IF @ = "rejected" THEN "readmitted" ELSE @]
                      ELSE IF r.short # None /\ r.short.status = 429
                      THEN [block EXCEPT ![req.ip] = "rejected"]
                      ELSE block
          /\ IF r.short # None
             THEN /\ last' = [req |-> req, status |-> r.short.status,
                              headers |-> r.short.headers, trace |-> r.trace,
                              token |-> None, token_type |-> "", expires_in |-> 0,
                              shown |-> {}, principal |-> 0]
                  /\ UNCHANGED inflight
             ELSE /\ last' = None
                  /\ inflight' = [inflight EXCEPT ![slot] =
                                    [req |-> req, trace |-> r.trace]]
    /\ UNCHANGED <<now, users, items, issued, tcase>>

\* The response a passes outwards through the whole stack to the client of the
\* request in flight (an unhandled exception passes through every dispatch and
\* is answered by ServerErrorMiddleware), with the writes of the route function.
Answer(slot, a) ==
    LET req == inflight[slot].req
        response == IF a.raised THEN [status |-> a.status, headers |-> a.headers]
                    ELSE Outbound([status |-> a.status, headers |-> a.headers],
                                  Len(MiddlewareStack))
    IN /\ last' = [req |-> req, status |-> response.status,
                   headers |-> response.headers,
                   trace |-> inflight[slot].trace \o a.trace,
                   token |-> a.token, token_type |-> a.token_type,
                   expires_in |-> a.expires_in, shown |-> a.shown,
                   principal |-> a.principal]
       /\ items' = a.items
       /\ users' = IF a.created = None THEN users ELSE users \cup {a.created}
       /\ issued' = IF a.token = None THEN issued ELSE {a.token}
       /\ inflight' = [inflight EXCEPT ![slot] = None]
       /\ UNCHANGED <<now, requests, accepted, block>>

\* The application answers a request in flight: the dependencies and the route
\* function run without an await, as one step.
Handle(slot) ==
    /\ inflight[slot] # None
    /\ \E a \in Responses(inflight[slot].req, users, items, now) : Answer(slot, a)
    /\ UNCHANGED tcase

Tick ==
    /\ \E d \in TickSteps :
          /\ now + d <= MaxTime
          /\ now' = now + d
    /\ accepted' = [c \in ClientIps |-> Recent(accepted[c], now')]
    /\ last' = None
    /\ UNCHANGED <<requests, users, items, issued, inflight, block, tcase>>

\* The application workload: a client that sends every kind of request and
\* waits for each response before it sends the next.
Next ==
    \/ inflight[1] = None /\ \E req \in AppMenu(issued) : Receive(1, req)
    \/ Handle(1)
    \/ Tick

Spec == Init /\ [][Next]_vars

\* The burst workload: concurrent requests of the same and of different clients.
NextBurst ==
    \/ \E slot \in Slots, req \in BurstMenu : Receive(slot, req)
    \/ \E slot \in Slots : Handle(slot)
    \/ Tick

SpecBurst == Init /\ [][NextBurst]_vars

-----------------------------------------------------------------------------
(* The users workload: two clients that log in, register and call the       *)
(* protected routes, with the token they hold or with no Authorization       *)
(* header (None), while the user table is maintained with crud.update_user   *)
(* and crud.delete_user, which no route calls.                               *)

\* The users the maintenance acts on, and the changes it makes.
ManagedIds == {2}

UserUpdates ==
    { [is_active |-> FALSE], [username |-> "renamed1"], [user_type |-> "admin"] }

Registrations == { <<"user1", "User1234", "user">>, <<"mod1", "User1234", "moderator">> }

UsersLoginAttempts ==
    { <<"user1", "User1234">>, <<"user1", "Admin123">>, <<"mod1", "User1234">>,
      <<"nobody", "User1234">> }

UsersMenu(held) ==
    UNION { { Request(ip, "login", 0, None, a[1], a[2]) : a \in UsersLoginAttempts }
            \cup { RegisterRequest(ip, g[1], g[2], g[3]) : g \in Registrations }
            \cup { Request(ip, r, 0, tok, "", "") :
                     r \in {"get_data", "get_users"}, tok \in held \cup {None} }
            \cup { Request(ip, "get_data_item_by_id", 1, tok, "", "") : tok \in held }
          : ip \in ClientIps }

UpdateUser ==
    /\ \E user_id \in ManagedIds, user_update \in UserUpdates :
          users' = update_user(users, user_id, user_update).users
    /\ last' = None
    /\ UNCHANGED <<now, requests, accepted, items, issued, inflight, block, tcase>>

DeleteUser ==
    /\ \E user_id \in ManagedIds :
          LET d == delete_user(users, items, user_id)
          IN /\ users' = d.users
             /\ items' = d.items
    /\ last' = None
    /\ UNCHANGED <<now, requests, accepted, issued, inflight, block, tcase>>

NextUsers ==
    \/ /\ inflight[1] = None
       /\ \E req \in UsersMenu(issued) :
             /\ req.route = "register" => NextId(users) <= MaxUserId
             /\ Receive(1, req)
    \/ Handle(1)
    \/ UpdateUser
    \/ DeleteUser

SpecUsers == Init /\ [][NextUsers]_vars

-----------------------------------------------------------------------------
(* The token primitives on their own: create_access_token is called with    *)
(* chosen claims and expires_delta, and verify_token is applied to the      *)
(* token it returned.                                                       *)

\* The caller passes no expires_delta: Python applies the parameter default.
Unspecified == [unspecified |-> TRUE]

TtlValues == {0, 30, 60, 1800}

ExpiresDeltas == {Unspecified, None} \cup {timedelta(n) : n \in TtlValues}

Principals ==
    { [sub |-> u.username, user_id |-> u.id, user_type |-> u.user_type] : u \in InitialUsers }

TokenIssue ==
    /\ \E data \in Principals, expires_delta \in ExpiresDeltas :
          tcase' = [data |-> data, expires_delta |-> expires_delta, issued_at |-> now,
                    token |-> create_access_token(
                                 data,
                                 IF expires_delta = Unspecified
                                 THEN timedelta(DefaultExpiresDelta) ELSE expires_delta,
                                 now),
                    verified |-> None]
    /\ UNCHANGED <<now, requests, accepted, users, items, issued, inflight, last, block>>

TokenVerify ==
    /\ tcase.token # None
    /\ tcase' = [tcase EXCEPT !.verified =
                    [at |-> now, result |-> verify_token(tcase.token, now)]]
    /\ UNCHANGED <<now, requests, accepted, users, items, issued, inflight, last, block>>

NextToken ==
    \/ TokenIssue
    \/ TokenVerify
    \/ Tick

SpecToken == Init /\ [][NextToken]_vars

-----------------------------------------------------------------------------
(* The access policy on its own: can_access_data_item is asked about chosen *)
(* items and principals while items are deleted.                            *)

\* The item ids asked about: those of the table and one that no item has.
PolicyItemIds == ItemIds \cup {NextId(InitialItems)}

PolicyAsk ==
    /\ \E item_id \in PolicyItemIds, user_id \in 1 .. MaxUserId, user_type \in UserTypes :
          tcase' = [item_id |-> item_id, user_id |-> user_id, user_type |-> user_type,
                    result |-> can_access_data_item(items, item_id, user_id, user_type)]
    /\ UNCHANGED <<now, requests, accepted, users, items, issued, inflight, last, block>>

PolicyDeleteItem ==
    /\ \E item_id \in PolicyItemIds :
          /\ get_data_item(items, item_id) # None
          /\ items' = delete_data_item(items, item_id).items
    /\ tcase' = EmptyCase
    /\ UNCHANGED <<now, requests, accepted, users, issued, inflight, last, block>>

NextPolicy ==
    \/ PolicyAsk
    \/ PolicyDeleteItem

SpecPolicy == Init /\ [][NextPolicy]_vars

-----------------------------------------------------------------------------
(* verify_token on its own, applied to arbitrary inputs: strings that are   *)
(* no JWT, tokens signed with another key or algorithm or with an altered    *)
(* signature, and tokens signed by the server with any claims.               *)

ExpValues == {0, 30, 60, MaxTime + DefaultExpiresDelta}

\* Strings that are not three base64url segments.
MalformedInputs == { [text |-> "invalid_token"], [text |-> ""] }

SigningKeys == {SECRET_KEY, "attacker-key", "altered-signature"}

Algorithms == {ALGORITHM, "HS512", "none"}

\* Payloads whose claims have the types login gives them, with and without
\* sub, user_id, user_type and exp.
Payloads ==
    { [sub |-> "user1", user_id |-> 2, user_type |-> "user", exp |-> e] : e \in ExpValues }
    \cup { [user_id |-> 2, user_type |-> "user", exp |-> e] : e \in ExpValues }
    \cup { [sub |-> "user1", exp |-> e] : e \in ExpValues }
    \cup { [sub |-> "user1", user_id |-> 2, user_type |-> "user"] }

\* A token signed by the server whose user_id claim is not an integer.
OddTokens ==
    { jwt_encode([sub |-> "user1", user_id |-> "abc", user_type |-> "user", exp |-> e],
                 SECRET_KEY, ALGORITHM) : e \in ExpValues }

VerifyInputs ==
    MalformedInputs
    \cup { jwt_encode(p, k, a) : p \in Payloads, k \in SigningKeys, a \in Algorithms }

VerifyInput ==
    /\ \E token \in VerifyInputs :
          tcase' = [input |-> token, at |-> now, outcome |-> verify_token(token, now)]
    /\ UNCHANGED <<now, requests, accepted, users, items, issued, inflight, last, block>>

VerifyOddToken ==
    /\ \E token \in OddTokens :
          tcase' = [input |-> token, at |-> now, outcome |-> verify_token(token, now)]
    /\ UNCHANGED <<now, requests, accepted, users, items, issued, inflight, last, block>>

NextVerify ==
    \/ VerifyOddToken
    \/ VerifyInput
    \/ Tick

SpecVerify == Init /\ [][NextVerify]_vars

-----------------------------------------------------------------------------
(* The registration workload: the server run as several worker processes    *)
(* on one database. Each worker runs register without interruption, but     *)
(* between its two statements, the SELECT of get_user_by_username and the    *)
(* INSERT and commit of create_user, another worker may run its own; the     *)
(* database executes each statement atomically. Logins run as one step.      *)

\* The bodies of POST /register that one client sends: a new name in mixed
\* case, a name that is taken, and a name that does not validate.
RegisterBodies ==
    { [username |-> "Mod1", password |-> "User1234", email |-> "mod1@example.com",
       user_type |-> "moderator"],
      [username |-> "user1", password |-> "User1234", email |-> "new@example.com",
       user_type |-> "user"],
      [username |-> "bad name", password |-> "User1234", email |-> "bad@example.com",
       user_type |-> "user"] }

\* The body another client sends: the same new name with another email.
RivalBodies ==
    { [username |-> "Mod1", password |-> "User1234", email |-> "other@example.com",
       user_type |-> "user"] }

RegisterLoginAttempts == { <<"Mod1", "User1234">>, <<"mod1", "User1234">> }

RegisterMenu ==
    { [Request("10.0.0.1", "register", 0, None, b.username, b.password)
         EXCEPT !.email = b.email, !.user_type = b.user_type] : b \in RegisterBodies }
    \cup { [Request("10.0.0.2", "register", 0, None, b.username, b.password)
               EXCEPT !.email = b.email, !.user_type = b.user_type] : b \in RivalBodies }
    \cup { Request("10.0.0.1", "login", 0, None, a[1], a[2]) :
             a \in RegisterLoginAttempts }

\* The worker of the request has not run the SELECT of register yet.
AtCheck(slot) ==
    /\ inflight[slot] # None
    /\ inflight[slot].req.route = "register"
    /\ inflight[slot].trace[Len(inflight[slot].trace)] # "register"

\* The worker has run the SELECT and found the username free.
AtCreate(slot) ==
    /\ inflight[slot] # None
    /\ inflight[slot].req.route = "register"
    /\ inflight[slot].trace[Len(inflight[slot].trace)] = "register"

\* Validation of the body and get_user_by_username (main.py line 117).
RegisterCheck(slot) ==
    /\ AtCheck(slot)
    /\ LET req == inflight[slot].req
       IN IF ~UserCreateValid(req)
          THEN Answer(slot, Reply(422, {}, <<"UserCreate">>, items))
          ELSE IF get_user_by_username(users, UserCreate(req).username) # None
          THEN Answer(slot, Reply(400, {}, <<"register">>, items))
          ELSE /\ inflight' = [inflight EXCEPT ![slot].trace = Append(@, "register")]
               /\ last' = None
               /\ UNCHANGED <<now, requests, accepted, users, items, issued, block>>
    /\ UNCHANGED tcase

\* create_user (main.py line 125): the INSERT and its commit.
RegisterCreate(slot) ==
    /\ AtCreate(slot)
    /\ LET c == create_user(users, UserCreate(inflight[slot].req))
       IN Answer(slot, IF c.raised THEN Reply(400, {}, <<"create_user">>, items)
                       ELSE [Reply(200, {}, <<"create_user">>, items)
                               EXCEPT !.created = c.user])
    /\ UNCHANGED tcase

NextRegister ==
    \/ \E slot \in Slots, req \in RegisterMenu :
          /\ req.route = "register" => NextId(users) <= MaxUserId
          /\ Receive(slot, req)
    \/ \E slot \in Slots : RegisterCheck(slot)
    \/ \E slot \in Slots : RegisterCreate(slot)
    \/ \E slot \in Slots :
          /\ inflight[slot] # None
          /\ inflight[slot].req.route = "login"
          /\ Handle(slot)

SpecRegister == Init /\ [][NextRegister]_vars

-----------------------------------------------------------------------------
(* The items workload: clients that log in and create, read, update and     *)
(* delete data items, among them an id that no item has. The deletion that   *)
(* succeeded last is kept on record: the item, its owner and the principal   *)
(* that deleted it.                                                          *)

ItemsLoginAttempts == { <<"admin", "Admin123">>, <<"user1", "User1234">> }

ItemsMenu(held) ==
    UNION { { Request(ip, "login", 0, None, a[1], a[2]) : a \in ItemsLoginAttempts }
            \cup { Request(ip, "create_data", 0, tok, "", "") : tok \in held }
            \cup { Request(ip, r, i, tok, "", "") :
                     r \in {"get_data_item_by_id", "update_data_item_by_id",
                            "delete_data_item_by_id"},
                     i \in PolicyItemIds, tok \in held }
          : ip \in ClientIps }

HandleItems(slot) ==
    /\ inflight[slot] # None
    /\ \E a \in Responses(inflight[slot].req, users, items, now) :
          /\ Answer(slot, a)
          /\ tcase' = IF a.items # items
                      THEN [item_id |-> inflight[slot].req.item,
                            owner |-> get_data_item(items, inflight[slot].req.item).user_id,
                            deleted_by |-> a.principal]
                      ELSE tcase

NextItems ==
    \/ inflight[1] = None /\ \E req \in ItemsMenu(issued) : Receive(1, req)
    \/ HandleItems(1)

SpecItems == Init /\ [][NextItems]_vars

-----------------------------------------------------------------------------
(* Properties of the rate limiter, checked under SpecBurst *)

\* The instants of list that lie within the trailing window at time t.
InWindow(list, t) == SelectSeq(list, LAMBDA a : t - a < Window)

\* The step passes a request of client c on from the rate limiter.
Passes(c) == Len(accepted'[c]) > Len(accepted[c])

\* The step answers a request of client c with 429.
Rejects(c) == last' # None /\ last'.status = 429 /\ last'.req.ip = c

\* C1: dispatch passes a request on only when fewer than requests_per_minute
\* accepted requests of its client lie within the trailing 60 seconds, and
\* answers 429 only when that many do.
C1_PassOnlyUnderLimit ==
    [][\A c \in ClientIps :
          /\ Passes(c) => Len(InWindow(accepted[c], now)) < RequestsPerMinute
          /\ Rejects(c) => Len(InWindow(accepted[c], now)) >= RequestsPerMinute]_vars

\* requests_per_minute requests of one client were accepted within the window
\* and the next one was answered 429.
C1_Witness ==
    /\ last # None
    /\ last.status = 429
    /\ Len(InWindow(accepted[last.req.ip], now)) = RequestsPerMinute

C3_AtomicCounting ==
    \A c \in ClientIps :
        /\ InWindow(requests[c], now) = InWindow(accepted[c], now)
        /\ \A i \in 1 .. Len(accepted[c]) :
              Len(SelectSeq(accepted[c],
                            LAMBDA b : accepted[c][i] <= b /\ b < accepted[c][i] + Window))
                 <= RequestsPerMinute

\* Two requests of one client are in flight at once and a further one of that
\* client has just been rejected.
C3_Witness ==
    /\ inflight[1] # None
    /\ inflight[2] # None
    /\ inflight[1].req.ip = inflight[2].req.ip
    /\ last # None
    /\ last.status = 429
    /\ last.req.ip = inflight[1].req.ip
    /\ Len(requests[last.req.ip]) = RequestsPerMinute

\* C4: a request answered 429 is not recorded (the lists are left as they
\* were) and nothing downstream of the rate limiter runs for it.
C4_RejectionNotRecorded ==
    [][(last' # None /\ last'.status = 429) =>
          /\ requests' = requests
          /\ accepted' = accepted
          /\ inflight' = inflight
          /\ last'.trace[Len(last'.trace)] = "RateLimitMiddleware"]_vars

\* A rejected client whose list holds exactly the accepted requests.
C4_Witness ==
    /\ last # None
    /\ last.status = 429
    /\ block[last.req.ip] = "rejected"
    /\ requests[last.req.ip] = accepted[last.req.ip]
    /\ last.trace[Len(last.trace)] = "RateLimitMiddleware"

-----------------------------------------------------------------------------
(* Properties of the request pipeline, checked under Spec *)

Has(trace, unit) == \E i \in 1 .. Len(trace) : trace[i] = unit

\* The position of the first occurrence of unit in trace.
Pos(trace, unit) == CHOOSE i \in 1 .. Len(trace) :
                       trace[i] = unit /\ \A j \in 1 .. i - 1 : trace[j] # unit

Occurrences(trace, unit) == Len(SelectSeq(trace, LAMBDA u : u = unit))

PolicyUnits == {"can_access_data_item", "require_admin"}

LookupUnits == {"get_data_item", "delete_data_item"}

\* C5 (as claimed): a request that the token check or the policy check rejects
\* mutates no state, so its arrival leaves the rate limiter's lists as they
\* were. (With one request at a time and no token expiring within MaxTime, the
\* application's verdict on arrival is the verdict it gives.)
C5_Claimed ==
    [][\A req \in AppMenu(issued) :
          (Receive(1, req) /\ App(req, users, items, now).status \in {401, 403})
             => requests' = requests]_vars

\* C5 (amended): the step that answers 429, 401 or 403 changes neither the
\* rate limiter's lists nor the database nor the tokens held, and the entry of
\* a request is recorded when the rate check passes it on, whatever the later
\* checks decide: it is still in the list when the 401 or 403 is given.
C5_RejectionEffects ==
    [][/\ (last' # None /\ last'.status \in {429, 401, 403})
             => /\ UNCHANGED <<requests, users, items, issued>>
                /\ last'.status # 429 => /\ requests[last'.req.ip] # <<>>
                                           /\ inflight # inflight'
       /\ \A c \in ClientIps :
             Passes(c) => requests'[c] = Append(InWindow(requests[c], now), now)]_vars

\* A request was rejected by the policy check and its entry is in the list.
C5_Witness ==
    /\ last # None
    /\ last.status = 403
    /\ items = InitialItems
    /\ requests[last.req.ip] # <<>>

\* C6: the checks run in the order rate check, token check, policy check, item
\* lookup, and the first rejection ends the request: a 429 ends at the rate
\* limiter whatever the token (no client gets more than requests_per_minute
\* requests past it), a 401 on a protected route ends at the token check with
\* no policy check and no item lookup, a 403 ends at the policy check.
C6_StagesInOrder ==
    /\ \A c \in ClientIps : Len(InWindow(accepted[c], now)) <= RequestsPerMinute
    /\ last # None =>
         LET tr == last.trace
         IN /\ last.status = 429 => tr[Len(tr)] = "RateLimitMiddleware"
            /\ Has(tr, "verify_token") =>
                  /\ Has(tr, "RateLimitMiddleware")
                  /\ Pos(tr, "RateLimitMiddleware") < Pos(tr, "verify_token")
            /\ \A u \in PolicyUnits :
                  Has(tr, u) => /\ Has(tr, "verify_token")
                                /\ Pos(tr, "verify_token") < Pos(tr, u)
            /\ \A u \in LookupUnits :
                  Has(tr, u) => /\ Has(tr, "can_access_data_item")
                                /\ Pos(tr, "can_access_data_item") < Pos(tr, u)
            /\ (last.status = 401 /\ last.req.route \in ProtectedRoutes) =>
                  /\ tr[Len(tr)] \in {"verify_token", "get_user"}
                  /\ \A u \in PolicyUnits \cup LookupUnits : ~Has(tr, u)
            /\ last.status = 403 => tr[Len(tr)] \in PolicyUnits

\* A request for an item with an invalid token was answered 401 at the token check.
C6_Witness ==
    /\ last # None
    /\ last.status = 401
    /\ last.req.route = "get_data_item_by_id"
    /\ last.trace[Len(last.trace)] = "verify_token"

RateLimiterSecond(req, trace) ==
    /\ trace[1] = "CORSMiddleware"
    /\ IF req.route = "preflight" THEN trace = <<"CORSMiddleware">>
       ELSE /\ Len(trace) >= 2
            /\ trace[2] = "RateLimitMiddleware"
            /\ Occurrences(trace, "RateLimitMiddleware") = 1

RequiredHeaders ==
    {"X-Process-Time", "X-Content-Type-Options", "X-Frame-Options",
     "Strict-Transport-Security"}

\* C8 (as claimed): every response carries X-Process-Time and the security headers.
C8_Claimed == last # None => RequiredHeaders \subseteq last.headers

\* C8 (amended): the responses the application gives to a request that passed
\* the rate limiter (200, 400, 401, 403, 404) carry X-Process-Time and the
\* security headers; the 429 of the rate limiter, the answer to a preflight
\* request and the 500 for an unhandled exception carry none of them.
C8_HeadersInsideStack ==
    last # None =>
        IF last.req.route # "preflight" /\ last.status \in {200, 400, 401, 403, 404}
        THEN RequiredHeaders \subseteq last.headers
        ELSE /\ last.status \in {200, 429, 500}
             /\ RequiredHeaders \cap last.headers = {}

\* A 429 left without the headers.
C8_Witness ==
    /\ last # None
    /\ last.status = 429
    /\ last.headers = {}

-----------------------------------------------------------------------------
(* Properties of the token primitives, checked under SpecToken *)

\* C9: verify_token applied to the token of create_access_token at the instant
\* of issuance succeeds and returns the sub, user_id and user_type it was given.
C9_RoundTrip ==
    (tcase.verified # None /\ tcase.verified.at = tcase.issued_at) =>
        /\ tcase.verified.result # None
        /\ tcase.verified.result.username = tcase.data.sub
        /\ tcase.verified.result.user_id = tcase.data.user_id
        /\ tcase.verified.result.user_type = tcase.data.user_type

\* A token issued with an explicit ttl was verified at the instant of issuance.
C9_Witness ==
    /\ tcase.verified # None
    /\ tcase.verified.at = tcase.issued_at
    /\ tcase.expires_delta = timedelta(30)
    /\ tcase.verified.result # None

\* C10 (as claimed): exp is the instant of issuance plus the ttl passed, for
\* every ttl including zero, and plus 15 minutes only when no ttl is given.
C10_Claimed ==
    tcase.token # None =>
        tcase.token.payload["exp"] =
            tcase.issued_at + (IF tcase.expires_delta \in {Unspecified, None}
                               THEN DefaultExpiresDelta
                               ELSE tcase.expires_delta.seconds)

\* The ttl a token call was given: the parameter default when none was passed.
GivenTtl ==
    IF tcase.expires_delta \in {Unspecified, None} THEN DefaultExpiresDelta
    ELSE tcase.expires_delta.seconds

\* C11 (as claimed): verify_token accepts a token only while now < exp, and
\* rejects it at every instant later than the instant of issuance plus the ttl.
C11_Claimed ==
    tcase.verified # None =>
        /\ tcase.verified.result # None =>
              tcase.verified.at < tcase.token.payload["exp"]
        /\ tcase.verified.at > tcase.issued_at + GivenTtl =>
              tcase.verified.result = None

-----------------------------------------------------------------------------
(* Properties of login and of the token check, checked under Spec and       *)
(* SpecUsers                                                                *)

\* C12 (as claimed): the expires_in of a successful /login is the lifetime of
\* the token of the same response: its exp is the login time plus expires_in.
C12_Claimed ==
    (last # None /\ last.req.route = "login" /\ last.status = 200) =>
        /\ last.expires_in = ACCESS_TOKEN_EXPIRE_MINUTES * 60
        /\ last.token.payload["exp"] = now + last.expires_in

\* The latest response answers a request to a protected route that passed
\* the rate limiter and bore a token which verify_token accepts.
BoreValidToken ==
    /\ last # None
    /\ last.req.route \in ProtectedRoutes
    /\ last.req.token # None
    /\ Has(last.trace, "verify_token")
    /\ verify_token(last.req.token, now) # None

\* C13 (as claimed): a request with a valid token whose user is inactive or
\* no longer exists is answered 401, in both cases.
C13_Claimed ==
    BoreValidToken =>
        LET user == get_user_by_username(users, last.req.token.payload["sub"])
        IN (user = None \/ ~user.is_active) => last.status = 401

\* C14 (as claimed): when the token check accepts a token and hands a user to
\* the route function, the user id of the token is that of an existing active
\* user, and that user is the one handed over.
C14_Claimed ==
    (BoreValidToken /\ last.principal # 0) =>
        LET user == get_user_by_id(users, last.req.token.payload["user_id"])
        IN /\ user # None
           /\ user.is_active
           /\ last.principal = user.id

-----------------------------------------------------------------------------
(* Properties of the access policy, checked under SpecPolicy, Spec and      *)
(* SpecUsers                                                                *)

\* C15: can_access_data_item is true for every admin and every item id, and
\* for a principal of any other role it is true exactly when an item with that
\* id exists and its owner id is the principal's id.
C15_PolicyDecision ==
    "result" \in DOMAIN tcase =>
        tcase.result =
            IF tcase.user_type = "admin" THEN TRUE
            ELSE \E d \in items : d.id = tcase.item_id /\ d.user_id = tcase.user_id

\* A moderator was granted access to the item it owns, and an item had been
\* deleted before.
C15_Witness ==
    /\ "result" \in DOMAIN tcase
    /\ tcase.user_type = "moderator"
    /\ tcase.result = TRUE
    /\ items # InitialItems

ItemRoutes == {"get_data_item_by_id", "update_data_item_by_id", "delete_data_item_by_id"}

\* C16 (as claimed): a non-admin principal is shown and deletes only items it
\* owns, its GET, PUT or DELETE on another user's item is answered 403 and
\* leaves the items as they were, and an admin's GET, PUT or DELETE on any
\* user's item succeeds.
C16_Claimed ==
    [][(last' # None /\ last'.principal # 0) =>
          LET principal == get_user_by_id(users, last'.principal)
              req == last'.req
              item == get_data_item(items, req.item)
          IN IF principal.user_type # "admin"
             THEN /\ \A d \in last'.shown : d.user_id = principal.id
                  /\ items' # items => (item # None /\ item.user_id = principal.id)
                  /\ (req.route \in ItemRoutes /\ item # None
                        /\ item.user_id # principal.id)
                       => (last'.status = 403 /\ items' = items)
             ELSE (req.route \in ItemRoutes /\ item # None) => last'.status = 200]_vars

\* The user that the token of the latest request names, as get_current_user
\* finds it: None when the token is rejected or no such user exists.
TokenUser ==
    IF last.req.token = None THEN None
    ELSE LET token_data == verify_token(last.req.token, now)
         IN IF token_data = None THEN None
            ELSE get_user_by_username(users, token_data.username)

\* C17 (as claimed): GET /users succeeds only for an active user whose role is
\* admin; an authenticated active user of any other role gets 403 from
\* require_admin; a request that is not authenticated (no Authorization header,
\* a rejected token, or a token naming no user) gets 401; and require_admin
\* runs only after the authentication checks, never for a request that failed
\* them.
C17_Claimed ==
    (last # None /\ last.req.route = "get_users" /\ last.status # 429) =>
        LET tr == last.trace
            user == TokenUser
        IN /\ last.status = 200 <=>
                 (user # None /\ user.is_active /\ user.user_type = "admin")
           /\ (user # None /\ user.is_active /\ user.user_type # "admin") =>
                 (last.status = 403 /\ tr[Len(tr)] = "require_admin")
           /\ user = None => (last.status = 401 /\ ~Has(tr, "require_admin"))
           /\ Has(tr, "require_admin") =>
                 /\ user # None /\ user.is_active
                 /\ Has(tr, "get_current_active_user")
                 /\ Pos(tr, "verify_token") < Pos(tr, "get_current_active_user")
                 /\ Pos(tr, "get_current_active_user") < Pos(tr, "require_admin")
           /\ last.principal # 0 => last.status = 200

\* C18 (as claimed): a request to a protected route with no Authorization
\* header, or with a token that verify_token rejects, is answered 401 with a
\* WWW-Authenticate header and the route function does not run.
C18_Claimed ==
    (/\ last # None
     /\ last.req.route \in ProtectedRoutes
     /\ last.status # 429
     /\ (last.req.token = None \/ verify_token(last.req.token, now) = None)) =>
        /\ last.status = 401
        /\ "WWW-Authenticate" \in last.headers
        /\ last.principal = 0

\* C19 (as claimed): verify_token returns the claims when the signature
\* verifies under the configured key and algorithm, sub is present and exp is
\* not in the past, and None for every other input; it never raises.
C19_Claimed ==
    "outcome" \in DOMAIN tcase =>
        LET token == tcase.input
            valid == /\ "payload" \in DOMAIN token
                     /\ token.key = SECRET_KEY
                     /\ token.alg = ALGORITHM
                     /\ "sub" \in DOMAIN token.payload
                     /\ "exp" \in DOMAIN token.payload => token.payload["exp"] >= tcase.at
        IN /\ tcase.outcome # ValidationError
           /\ valid <=> tcase.outcome # None
           /\ valid => tcase.outcome.username = token.payload["sub"]

\* C20: a login that passed the rate limiter is answered 200 with a token and
\* token_type "bearer" exactly when a user with that username exists, the
\* password verifies against its hash and it is active; for an unknown
\* username or a wrong password the answer is 401; and whenever the answer is
\* not 200 no token is issued.
C20_LoginOutcome ==
    (last # None /\ last.req.route = "login" /\ last.status # 429) =>
        LET known == { u \in users : /\ u.username = last.req.username
                                     /\ verify_password(last.req.password,
                                                         u.hashed_password) }
        IN /\ last.status = 200 <=> \E u \in known : u.is_active
           /\ last.status = 200 =>
                 /\ last.token # None
                 /\ last.token_type = "bearer"
                 /\ issued = {last.token}
                 /\ \E u \in known : /\ last.token.payload["sub"] = u.username
                                      /\ last.token.payload["user_id"] = u.id
           /\ known = {} => last.status = 401
           /\ last.status # 200 => (last.token = None /\ last.token_type = "")

\* The right password of a deactivated user was refused, and no token issued.
C20_Witness ==
    /\ last # None
    /\ last.req.route = "login"
    /\ last.status = 400
    /\ last.token = None
    /\ \E u \in users : /\ u.username = last.req.username
                         /\ ~u.is_active
                         /\ verify_password(last.req.password, u.hashed_password)

-----------------------------------------------------------------------------
(* Properties of registration, checked under SpecRegister *)

\* The strings a user of the table can have registered with: those of the
\* registration bodies that validate_username turns into its username, and for
\* the users of the initial table the username itself.
RegisteredAs(u) ==
    IF u \in InitialUsers THEN {u.username}
    ELSE { b.username : b \in { c \in RegisterBodies \cup RivalBodies :
                                   lower(c.username) = u.username } }

\* C21 (as claimed): a user who registered with an accepted username string
\* logs in with that same string and the correct password.
C21_Claimed ==
    (/\ last # None
     /\ last.req.route = "login"
     /\ last.status # 429
     /\ \E u \in users : /\ last.req.username \in RegisteredAs(u)
                          /\ u.is_active
                          /\ verify_password(last.req.password, u.hashed_password)) =>
        (last.status = 200 /\ last.token # None)

\* C22: a registration of a username that is registered when it is answered,
\* in any spelling, gets 400 and leaves the users table as it was, and at all
\* times, also when several registrations of one name are in progress at once,
\* no two users share a username.
C22_UniqueUsernames ==
    [][/\ \A u, v \in users' : u.username = v.username => u = v
       /\ (/\ last' # None
           /\ last'.req.route = "register"
           /\ last'.status # 429
           /\ UserCreateValid(last'.req)
           /\ \E u \in users : u.username = lower(last'.req.username)) =>
              (last'.status = 400 /\ users' = users)]_vars

\* A registration found the username free, another registration of the same
\* name with another email was committed in between, and the first was
\* answered 400 by create_user.
C22_Witness ==
    /\ last # None
    /\ last.req.route = "register"
    /\ last.status = 400
    /\ last.trace[Len(last.trace)] = "create_user"
    /\ \E u \in users : /\ u.username = lower(last.req.username)
                         /\ u.email # last.req.email

-----------------------------------------------------------------------------
(* Properties of the item routes, checked under SpecItems *)

\* C23 (as claimed): after the owner of an item, not an admin, deleted it with
\* DELETE /data/{item_id}, its GET /data/{item_id} is answered 404.
C23_Claimed ==
    (/\ "deleted_by" \in DOMAIN tcase
     /\ tcase.deleted_by = tcase.owner
     /\ last # None
     /\ last.req.route = "get_data_item_by_id"
     /\ last.req.item = tcase.item_id
     /\ last.principal = tcase.owner
     /\ get_user_by_id(users, last.principal).user_type # "admin") =>
        last.status = 404

\* C24 (as claimed): POST /data by an authenticated active principal is
\* answered 200 and stores exactly one new item, with a fresh id and the
\* principal as its owner.
C24_Claimed ==
    [][(/\ last' # None
        /\ last'.req.route = "create_data"
        /\ last'.principal # 0) =>
          /\ last'.status = 200
          /\ \E d \in items' \ items :
                /\ items' = items \cup {d}
                /\ d.user_id = last'.principal
                /\ \A e \in items : e.id # d.id]_vars

\* The response that tells a principal it may not access an item.
Forbidden ==
    [status |-> 403, headers |-> SecurityHeaders \cup {"X-Process-Time"}, shown |-> {}]

-----------------------------------------------------------------------------
(* Properties of the rate limiter's lists, checked under SpecBurst *)

\* The step is a call of RateLimitMiddleware.dispatch for client c.
Dispatches(c) == Passes(c) \/ Rejects(c)

NonDecreasing(list) == \A i \in 1 .. Len(list) - 1 : list[i] <= list[i + 1]

\* C26 (as claimed): a call of the rate limiter removes from the client's list
\* exactly the instants more than 60 seconds old and keeps every instant t with
\* now - t <= 60, so that a request made exactly 60 seconds earlier still
\* counts.
C26_Claimed ==
    [][\A c \in ClientIps :
          Dispatches(c) =>
            LET kept == SelectSeq(requests[c], LAMBDA t : now - t <= Window)
            IN /\ requests'[c] = IF Passes(c) THEN Append(kept, now) ELSE kept
               /\ Passes(c) <=> Len(kept) < RequestsPerMinute]_vars

\* C27 (as claimed): in every reachable state the list of every client holds
\* only instants within the trailing 60 seconds of the current time, in
\* non-decreasing order.
C27_Claimed ==
    \A c \in ClientIps :
        /\ \A i \in 1 .. Len(requests[c]) : now - requests[c][i] <= Window
        /\ NonDecreasing(requests[c])

\* C27 (amended): the list of every client is in non-decreasing order in every
\* reachable state; right after a call of the rate limiter for a client its
\* list holds only instants less than 60 seconds old; and no other step changes
\* a list, so between the calls of a client its entries stay however old they
\* grow.
C27_PrunedOnAccess ==
    [][\A c \in ClientIps :
          /\ NonDecreasing(requests'[c])
          /\ Dispatches(c) =>
                \A i \in 1 .. Len(requests'[c]) : now' - requests'[c][i] < Window
          /\ ~Dispatches(c) => requests'[c] = requests[c]]_vars

\* The list of one client still holds an instant more than 60 seconds old,
\* while that of another, rejected and accepted again, was pruned down to its
\* latest request.
C27_Witness ==
    \E c, d \in ClientIps :
        /\ c # d
        /\ requests[c] # <<>>
        /\ now - Head(requests[c]) > Window
        /\ block[d] = "readmitted"
        /\ requests[d] = <<now>>

\* C28: a call of the rate limiter for one client, whether it accepts or
\* rejects, leaves the list of every other client as it was, and it accepts
\* exactly when fewer than requests_per_minute of that client's own accepted
\* requests lie within the trailing 60 seconds.
C28_IsolatedPerClient ==
    [][\A a \in ClientIps :
          Dispatches(a) =>
            /\ \A b \in ClientIps \ {a} :
                  requests'[b] = requests[b] /\ accepted'[b] = accepted[b]
            /\ Passes(a) <=> Len(InWindow(accepted[a], now)) < RequestsPerMinute]_vars

\* One client is at its limit and has just been rejected, while the other has
\* a request in flight that was accepted at the same instant.
C28_Witness ==
    \E a, b \in ClientIps :
        /\ a # b
        /\ last # None
        /\ last.status = 429
        /\ last.req.ip = a
        /\ Len(requests[a]) = RequestsPerMinute
        /\ requests[b] # <<>>
        /\ requests[b][Len(requests[b])] = now
        /\ \E slot \in Slots : inflight[slot] # None /\ inflight[slot].req.ip = b

-----------------------------------------------------------------------------
(* Properties of tokens and roles over the life of a user, checked under     *)
(* SpecUsers                                                                 *)

\* C25 (as claimed): a token that login issued is accepted by the token check
\* at every instant before its exp, as long as the user it was issued to
\* exists and is active, whatever was requested or done since.
C25_Claimed ==
    (/\ last # None
     /\ last.req.route \in ProtectedRoutes
     /\ last.status # 429
     /\ last.req.token # None
     /\ jwt_decodes(last.req.token, SECRET_KEY, ALGORITHM, now)
     /\ now < last.req.token.payload["exp"]
     /\ \E u \in users : u.id = last.req.token.payload["user_id"] /\ u.is_active) =>
        /\ last.status # 401
        /\ Has(last.trace, "get_current_active_user")

\* C29: GET /users, GET /data and GET /data/{item_id} are decided by the role
\* and id that the users table holds, at the time of the request, for the
\* user the token names, whatever user_type and user_id the token carries.
C29_StoredRoleDecides ==
    (/\ last # None
     /\ last.req.route \in {"get_users", "get_data", "get_data_item_by_id"}
     /\ last.status # 429
     /\ TokenUser # None
     /\ TokenUser.is_active) =>
        LET user == TokenUser
            item == get_data_item(items, last.req.item)
        IN /\ last.req.route = "get_users" =>
                 last.status = IF user.user_type = "admin" THEN 200 ELSE 403
           /\ last.req.route = "get_data" =>
                 /\ last.status = 200
                 /\ last.shown = IF user.user_type = "admin" THEN items
                                 ELSE {d \in items : d.user_id = user.id}
           /\ last.req.route = "get_data_item_by_id" =>
                 last.status =
                    IF user.user_type = "admin"
                    THEN (IF item = None THEN 404 ELSE 200)
                    ELSE (IF item # None /\ item.user_id = user.id THEN 200 ELSE 403)

\* A user was made an admin after it had logged in, and the token that still
\* says user was given the list of users.
C29_Witness ==
    /\ last # None
    /\ last.req.route = "get_users"
    /\ last.status = 200
    /\ last.req.token # None
    /\ last.req.token.payload["user_type"] = "user"
    /\ TokenUser # None
    /\ TokenUser.user_type = "admin"

====
